---- MODULE Spec2Model ----
(***************************************************************************)
(* Model of the `dis` runtime type classifier (src/is.ts): the classifier  *)
(* getTypeName, the predicates is.T, the combinators is.any / is.all /     *)
(* is.none, the numeric, instance, shape and array predicates that take    *)
(* arguments of their own kind, the assertions assert.T with the text of   *)
(* their errors, and the negation flag shared by the `is.not` views and    *)
(* the assertions.                                                         *)
(*                                                                         *)
(* A JavaScript value is a record of the facts the code inspects:          *)
(*   typ       typeof the value ("null" stands for the value null, whose   *)
(*             typeof is "object")                                         *)
(*   truthy    Boolean(value)                                              *)
(*   nan       Number.isNaN(value)                                         *)
(*   obs       what value[Symbol.observable] is: "absent" (nullish),       *)
(*             "self" (a method returning the value), "other" (a method    *)
(*             returning something else), "notfn" (a non-callable value)   *)
(*   atobs     the same for value["@@observable"]                          *)
(*   isArray   Array.isArray(value)                                        *)
(*   isBuffer  what value.constructor.isBuffer is: "absent" (constructor   *)
(*             or isBuffer nullish), "yes"/"no" (a function returning      *)
(*             true/false for the value), "notfn" (a non-callable value)   *)
(*   deno      value instanceof Buffer (std/io/buffer.ts)                  *)
(*   wrapper   the primitive wrapper class the value is an instance of     *)
(*   tag       Object.prototype.toString.call(value).slice(8, -1)          *)
(*   len       what value.length is: "absent", "valid" (a safe integer     *)
(*             that is not negative) or "invalid" (anything else)          *)
(*   node      value.nodeType === 1 and typeof value.nodeName === "string" *)
(*   generic   innerHTML, ownerDocument, attributes, nodeValue in value    *)
(*   style     "style" in value                                            *)
(*   ownerSVG  "ownerSVGElement" in value                                  *)
(***************************************************************************)
EXTENDS Integers, FiniteSets, Sequences

VARIABLES negated, assertNegated, views, last, plain, mid

vars == <<negated, assertNegated, views, last, plain, mid>>

\* Number of negated views (reads of is.not) the caller takes in one run.
MaxViews == 2

\* Longest list of values, and longest array of predicates, handed to
\* is.any / is.all / is.none.
MaxValues == 3

MaxPredicates == 2

\* Largest magnitude of the finite numbers, and longest range array, handed
\* to is.inRange.
MaxNumber == 2

MaxRangeLength == 3

\* Longest array handed to is.sparseArray.
MaxSlots == 3

\* Number of nested calls of is.exact the call stack has room for.
MaxCallDepth == 5

(***************************************************************************)
(* Outcomes of a call.                                                     *)
(***************************************************************************)
True == "true"
False == "false"
Void == "void"
NoTag == "<undefined>"
ThrowTypeError == "throw TypeError"
ThrowUsage == "throw TypeError: Please don't use object wrappers for primitive types"
ThrowAssertion == "throw TypeError: Assertion Failure"
ThrowInvalidPredicate == "throw TypeError: Invalid predicate"
ThrowInvalidValues == "throw TypeError: Invalid number of values"
ThrowInvalidRange == "throw TypeError: Invalid range"
ThrowRangeError == "throw RangeError: Maximum call stack size exceeded"

Throws ==
  { ThrowTypeError, ThrowUsage, ThrowAssertion, ThrowInvalidPredicate,
    ThrowInvalidValues, ThrowInvalidRange, ThrowRangeError }

Bool(b) == IF b THEN True ELSE False

Negate(r) == IF r = True THEN False ELSE True

(***************************************************************************)
(* The tag enumeration.                                                    *)
(***************************************************************************)
typedArrayTypeNames ==
  { "Int8Array", "Uint8Array", "Uint8ClampedArray", "Int16Array",
    "Uint16Array", "Int32Array", "Uint32Array", "Float32Array",
    "Float64Array", "BigInt64Array", "BigUint64Array" }

objectTypeNames ==
  { "Function", "Generator", "GeneratorFunction", "AsyncFunction",
    "AsyncGenerator", "AsyncGeneratorFunction", "Observable", "Array",
    "ArrayLike", "ReadonlyArray", "Buffer", "Blob", "Object", "RegExp",
    "RegExpMatchArray", "RegExpExecArray", "TemplateStringsArray", "Date",
    "Error", "Iterable", "Iterator", "IterableIterator", "AsyncIterable",
    "AsyncIterator", "AsyncIterableIterator", "Map Iterator", "Set Iterator",
    "String Iterator", "Array Iterator", "Map", "Set", "WeakMap", "WeakSet",
    "WeakRef", "ArrayBuffer", "SharedArrayBuffer", "DataView", "Module",
    "Promise", "FormData", "Headers", "Request", "Response", "ReadableStream",
    "WritableStream", "TransformStream", "Reader", "Writer", "FileInfo",
    "URLSearchParams", "URLPattern", "URL", "HTMLElement", "SVGElement",
    "Element", "NaN" } \cup typedArrayTypeNames

primitiveTypeNames ==
  { "null", "undefined", "string", "number", "bigint", "boolean", "symbol",
    "object", "function" }

TypeName == objectTypeNames \cup primitiveTypeNames

isObjectTypeName(name) == name \in objectTypeNames

isPrimitiveTypeName(name) == name \in primitiveTypeNames

(***************************************************************************)
(* Class tags that occur in the modelled values, and the three regular     *)
(* expressions of the element checks evaluated on them.                    *)
(***************************************************************************)
WrapperNames == { "String", "Number", "Boolean", "BigInt", "Symbol" }

ElementTags == { "HTMLDivElement", "SVGSVGElement", "Element" }

\* /Element/.test(tag)
MatchesElement(tag) == tag \in { "HTMLDivElement", "SVGSVGElement", "Element",
                                 "HTMLElement", "SVGElement" }

\* /HTML\w*Element/.test(tag)
MatchesHtmlElement(tag) == tag \in { "HTMLDivElement", "HTMLElement" }

\* /SVG\w*Element/.test(tag)
MatchesSvgElement(tag) == tag \in { "SVGSVGElement", "SVGElement" }

(***************************************************************************)
(* Helpers of src/_util/predicates.ts.                                     *)
(***************************************************************************)
\* typeof value
TypeOf(v) == IF v.typ = "null" THEN "object" ELSE v.typ

isOfType(type, v) == TypeOf(v) = type

isElement(v) ==
  /\ TypeOf(v) = "object" /\ v.typ # "null"
  /\ v.node
  /\ v.tag # "Object"
  /\ MatchesElement(v.tag)
  /\ v.generic

isDomElement(v) == isElement(v) /\ v.style /\ MatchesHtmlElement(v.tag)

isSvgElement(v) ==
  isElement(v) /\ v.style /\ v.ownerSVG /\ MatchesSvgElement(v.tag)

getObjectType(v) ==
  IF TypeOf(v) # "object" THEN NoTag
  ELSE IF isDomElement(v) THEN "HTMLElement"
  ELSE IF isSvgElement(v) THEN "SVGElement"
  ELSE IF isElement(v) THEN "Element"
  ELSE IF isObjectTypeName(v.tag) THEN v.tag
  ELSE "Object"

\* every typed-array predicate accepting any typed array
isObjectOfType_AnyTypedArray(type, v) ==
  \/ getObjectType(v) = type
  \/ type \in typedArrayTypeNames /\ getObjectType(v) \in typedArrayTypeNames

isObjectOfType(type, v) == getObjectType(v) = type

(***************************************************************************)
(* Predicates of class `is` that the classifier uses.  A predicate that    *)
(* can throw returns an outcome (True, False or a member of Throws); the   *)
(* others return a BOOLEAN.                                                *)
(***************************************************************************)
isFunction(v) == isOfType("function", v)

isNull(v) == v.typ = "null"

isObject(v) == ~isNull(v) /\ (TypeOf(v) = "object" \/ isFunction(v))

isArray(v) == v.isArray

\* the global isNaN, which coerces its argument, instead of Number.isNaN
isNaN_Global(v) == (v.typ = "number" /\ v.nan) \/ v.typ = "undefined"

isNaN(v) == v.typ = "number" /\ v.nan

\* is.number without its exclusion of NaN
number_WithNaN(v) == isOfType("number", v)

number(v) == isOfType("number", v) /\ ~isNaN(v)

asyncFunction(v) == getObjectType(v) = "AsyncFunction"

primitive(v) == isNull(v) \/ isPrimitiveTypeName(TypeOf(v))

nullOrUndefined(v) == isNull(v) \/ isOfType("undefined", v)

\* is.safeInteger(value) && value >= 0, for value = v.length
isValidLength(v) == v.len = "valid"

\* is.arrayLike accepting arrays only
arrayLike_ArraysOnly(v) == isArray(v) /\ isValidLength(v)

arrayLike(v) == ~nullOrUndefined(v) /\ ~isFunction(v) /\ isValidLength(v)

boxedPrimitive(v) ==
  /\ isObject(v)
  /\ \E w \in WrapperNames : v.wrapper = w /\ v.tag = w

\* value === value[Symbol.observable]?.()  then  value === value["@@observable"]?.()
observable(v) ==
  IF ~v.truthy THEN False
  ELSE IF v.obs = "notfn" THEN ThrowTypeError
  ELSE IF v.obs = "self" THEN True
  ELSE IF v.atobs = "notfn" THEN ThrowTypeError
  ELSE IF v.atobs = "self" THEN True
  ELSE False

\* value?.constructor?.isBuffer?.(value) ?? false
nodeBuffer(v) ==
  IF v.typ \in {"null", "undefined"} THEN False
  ELSE IF v.isBuffer = "notfn" THEN ThrowTypeError
  ELSE IF v.isBuffer = "yes" THEN True
  ELSE False

\* Object.getPrototypeOf(instance) === class_.prototype, for class_ = Buffer
directInstanceOfBuffer(v) ==
  IF v.typ \in {"null", "undefined"} THEN ThrowTypeError
  ELSE Bool(v.deno)

\* is.directInstanceOf(instance, class_) || instance instanceof class_
instanceOfBuffer(v) ==
  IF directInstanceOfBuffer(v) = False THEN Bool(v.deno)
  ELSE directInstanceOfBuffer(v)

\* Buffer[Symbol.hasInstance](value) || is.instanceOf(value, Buffer)
denoBuffer(v) == IF v.deno THEN True ELSE instanceOfBuffer(v)

arrayBuffer(v) == isObjectOfType("ArrayBuffer", v)

\* is.buffer without its is.nodeBuffer alternative
buffer_NoNodeBuffer(v) ==
  IF arrayBuffer(v) THEN True
  ELSE denoBuffer(v)

\* is.arrayBuffer(value) || is.denoBuffer(value) || is.nodeBuffer(value)
buffer(v) ==
  IF arrayBuffer(v) THEN True
  ELSE IF denoBuffer(v) # False THEN denoBuffer(v)
  ELSE nodeBuffer(v)

(***************************************************************************)
(* The classifier: is(value), is.typeName(value).                          *)
(***************************************************************************)
\* the Array test placed before the Observable test
getTypeName_ArrayFirst(v) ==
  IF v.typ = "null" THEN "null"
  ELSE IF TypeOf(v) = "undefined" THEN "undefined"
  ELSE IF TypeOf(v) = "string" THEN "string"
  ELSE IF TypeOf(v) = "number" THEN (IF v.nan THEN "NaN" ELSE "number")
  ELSE IF TypeOf(v) = "boolean" THEN "boolean"
  ELSE IF TypeOf(v) = "function" THEN "Function"
  ELSE IF TypeOf(v) = "bigint" THEN "bigint"
  ELSE IF TypeOf(v) = "symbol" THEN "symbol"
  ELSE IF isArray(v) THEN "Array"
  ELSE IF observable(v) \in Throws THEN observable(v)
  ELSE IF observable(v) = True THEN "Observable"
  ELSE IF nodeBuffer(v) \in Throws THEN nodeBuffer(v)
  ELSE IF nodeBuffer(v) = True THEN "Buffer"
  ELSE IF denoBuffer(v) \in Throws THEN denoBuffer(v)
  ELSE IF denoBuffer(v) = True THEN "Buffer"
  ELSE IF boxedPrimitive(v) THEN ThrowUsage
  ELSE IF getObjectType(v) = NoTag THEN "Object"
  ELSE getObjectType(v)

getTypeName(v) ==
  IF v.typ = "null" THEN "null"
  ELSE IF TypeOf(v) = "undefined" THEN "undefined"
  ELSE IF TypeOf(v) = "string" THEN "string"
  ELSE IF TypeOf(v) = "number" THEN (IF v.nan THEN "NaN" ELSE "number")
  ELSE IF TypeOf(v) = "boolean" THEN "boolean"
  ELSE IF TypeOf(v) = "function" THEN "Function"
  ELSE IF TypeOf(v) = "bigint" THEN "bigint"
  ELSE IF TypeOf(v) = "symbol" THEN "symbol"
  ELSE IF observable(v) \in Throws THEN observable(v)
  ELSE IF observable(v) = True THEN "Observable"
  ELSE IF isArray(v) THEN "Array"
  ELSE IF nodeBuffer(v) \in Throws THEN nodeBuffer(v)
  ELSE IF nodeBuffer(v) = True THEN "Buffer"
  ELSE IF denoBuffer(v) \in Throws THEN denoBuffer(v)
  ELSE IF denoBuffer(v) = True THEN "Buffer"
  ELSE IF boxedPrimitive(v) THEN ThrowUsage
  ELSE IF getObjectType(v) = NoTag THEN "Object"
  ELSE getObjectType(v)

typeName(v) == getTypeName(v)

(***************************************************************************)
(* The predicates is.T.  TagOf gives the built-in tag a predicate compares *)
(* getObjectType(value) with.                                              *)
(***************************************************************************)
TagPredicates ==
  { "map", "set", "weakMap", "weakSet", "weakRef", "date", "regExp", "error",
    "nativePromise", "dataView", "arrayBuffer", "sharedArrayBuffer",
    "int8Array", "uint8Array", "uint8ClampedArray", "int16Array",
    "uint16Array", "int32Array", "uint32Array", "float32Array",
    "float64Array", "bigInt64Array", "bigUint64Array" }

TagOf(T) ==
  CASE T = "map" -> "Map"
    [] T = "set" -> "Set"
    [] T = "weakMap" -> "WeakMap"
    [] T = "weakSet" -> "WeakSet"
    [] T = "weakRef" -> "WeakRef"
    [] T = "date" -> "Date"
    [] T = "regExp" -> "RegExp"
    [] T = "error" -> "Error"
    [] T = "nativePromise" -> "Promise"
    [] T = "dataView" -> "DataView"
    [] T = "arrayBuffer" -> "ArrayBuffer"
    [] T = "sharedArrayBuffer" -> "SharedArrayBuffer"
    [] T = "int8Array" -> "Int8Array"
    [] T = "uint8Array" -> "Uint8Array"
    [] T = "uint8ClampedArray" -> "Uint8ClampedArray"
    [] T = "int16Array" -> "Int16Array"
    [] T = "uint16Array" -> "Uint16Array"
    [] T = "int32Array" -> "Int32Array"
    [] T = "uint32Array" -> "Uint32Array"
    [] T = "float32Array" -> "Float32Array"
    [] T = "float64Array" -> "Float64Array"
    [] T = "bigInt64Array" -> "BigInt64Array"
    [] T = "bigUint64Array" -> "BigUint64Array"

BasicPredicates ==
  { "string", "number", "boolean", "null", "undefined", "function", "array",
    "nan", "observable", "buffer" }

KindPredicates == { "asyncFunction", "primitive", "arrayLike" }

Predicates == TagPredicates \cup BasicPredicates \cup KindPredicates

\* The outcome of is.T(value).
isT(T, v) ==
  CASE T \in TagPredicates -> Bool(isObjectOfType(TagOf(T), v))
    [] T = "string" -> Bool(isOfType("string", v))
    [] T = "number" -> Bool(number(v))
    [] T = "boolean" -> Bool(v.typ = "boolean")
    [] T = "null" -> Bool(isNull(v))
    [] T = "undefined" -> Bool(isOfType("undefined", v))
    [] T = "function" -> Bool(isFunction(v))
    [] T = "array" -> Bool(isArray(v))
    [] T = "nan" -> Bool(isNaN(v))
    [] T = "observable" -> observable(v)
    [] T = "buffer" -> buffer(v)
    [] T = "asyncFunction" -> Bool(asyncFunction(v))
    [] T = "primitive" -> Bool(primitive(v))
    [] T = "arrayLike" -> Bool(arrayLike(v))

(***************************************************************************)
(* The combinators is.any, is.all and is.none.  A predicate argument is a  *)
(* record: isArray tells whether the caller passed an array, items are the *)
(* array's members (or the single argument); an item is the name of a      *)
(* predicate is.T, or NotAFunction.                                        *)
(***************************************************************************)
NotAFunction == "<not a function>"

\* Array.prototype.some / Array.prototype.every over the outcomes of the
\* callback, left to right: the first decisive outcome or throw ends the
\* loop.
RECURSIVE ArrayMethod(_, _, _)
ArrayMethod(method, outs, i) ==
  IF i > Len(outs) THEN Bool(method = "every")
  ELSE IF outs[i] \in Throws THEN outs[i]
  ELSE IF method = "some" /\ outs[i] = True THEN True
  ELSE IF method = "every" /\ outs[i] = False THEN False
  ELSE ArrayMethod(method, outs, i + 1)

predicateOnArray(method, predicate, values) ==
  IF predicate = NotAFunction THEN ThrowInvalidPredicate
  ELSE IF Len(values) = 0 THEN ThrowInvalidValues
  ELSE ArrayMethod(method,
                   [i \in 1..Len(values) |-> isT(predicate, values[i])], 1)

\* predicates.<outer>((p) => predicateOnArray(Array.prototype.<inner>, p, values))
predicatesOnValues(outer, inner, predicate, values) ==
  ArrayMethod(outer,
              [i \in 1..Len(predicate.items) |->
                 predicateOnArray(inner, predicate.items[i], values)], 1)

\* is.any asking each predicate to hold of every value
any_EveryValue(predicate, values) ==
  predicatesOnValues("some", "every", predicate, values)

any(predicate, values) ==
  predicatesOnValues("some", "some", predicate, values)

\* is.all asking each predicate to hold of some value
all_SomeValue(predicate, values) ==
  predicatesOnValues("every", "some", predicate, values)

all(predicate, values) ==
  predicatesOnValues("every", "every", predicate, values)

none(predicate, values) ==
  predicatesOnValues("some", "some", predicate, values)

(***************************************************************************)
(* is.directInstanceOf and is.instanceOf.  An instance is a record: kind   *)
(* "nullish" (null or undefined), "primitive" or "object", and chain, the  *)
(* classes whose prototype objects form its prototype chain, nearest       *)
(* first.                                                                  *)
(***************************************************************************)
\* Object.getPrototypeOf(instance), named by its class ("null" at the end of
\* the chain)
getPrototypeOf(instance) ==
  IF Len(instance.chain) = 0 THEN "null" ELSE instance.chain[1]

\* instance instanceof class_
instanceof(instance, class_) ==
  /\ instance.kind = "object"
  /\ \E i \in 1..Len(instance.chain) : instance.chain[i] = class_

\* is.directInstanceOf accepting any class of the prototype chain
directInstanceOf_WholeChain(instance, class_) ==
  IF instance.kind = "nullish" THEN ThrowTypeError
  ELSE Bool(\E i \in 1..Len(instance.chain) : instance.chain[i] = class_)

directInstanceOf(instance, class_) ==
  IF instance.kind = "nullish" THEN ThrowTypeError
  ELSE Bool(getPrototypeOf(instance) = class_)

instanceOf(instance, class_) ==
  IF directInstanceOf(instance, class_) = False
    THEN Bool(instanceof(instance, class_))
  ELSE directInstanceOf(instance, class_)

(***************************************************************************)
(* is.inRange.  A number is a record: kind "int" with its value n, "inf"   *)
(* with its sign n, or "nan".  A member of a range array can also be a     *)
(* non-numeric string or null.  A range argument is a record: isArray      *)
(* tells whether it is an array, items are its members (or the single      *)
(* argument).                                                              *)
(***************************************************************************)
Finite(n) == [k |-> "int", n |-> n]
NaNNumber == [k |-> "nan", n |-> 0]
PosInfinity == [k |-> "inf", n |-> 1]
NegInfinity == [k |-> "inf", n |-> -1]
\* "a"
StringMember == [k |-> "string", n |-> 0]
NullMember == [k |-> "null", n |-> 0]

\* typeof x === "number"
IsNumberKind(x) == x.k \in { "int", "inf", "nan" }

\* the number the arithmetic operators convert x to
ToNumber(x) ==
  CASE x.k = "string" -> NaNNumber
    [] x.k = "null" -> Finite(0)
    [] OTHER -> x

\* position of a number other than NaN on the extended number line
Key(x) == IF x.k = "inf" THEN x.n * (MaxNumber + 1) ELSE x.n

\* x <= y, which is false when either side is NaN
Le(x, y) == x.k # "nan" /\ y.k # "nan" /\ Key(x) <= Key(y)

\* x >= y
Ge(x, y) == Le(y, x)

MathMin(x, y) ==
  IF ToNumber(x).k = "nan" \/ ToNumber(y).k = "nan" THEN NaNNumber
  ELSE IF Key(ToNumber(x)) <= Key(ToNumber(y)) THEN ToNumber(x)
  ELSE ToNumber(y)

MathMax(x, y) ==
  IF ToNumber(x).k = "nan" \/ ToNumber(y).k = "nan" THEN NaNNumber
  ELSE IF Key(ToNumber(x)) >= Key(ToNumber(y)) THEN ToNumber(x)
  ELSE ToNumber(y)

\* is.number(range)
isNumberRange(range) ==
  ~range.isArray /\ range.items[1].k \in { "int", "inf" }

\* is.inRange comparing with range[0] and range[1] as given
inRange_Ordered(value, range) ==
  IF isNumberRange(range)
    THEN Bool(/\ Ge(value, MathMin(Finite(0), range.items[1]))
              /\ Le(value, MathMax(range.items[1], Finite(0))))
  ELSE IF range.isArray /\ Len(range.items) = 2
    THEN Bool(/\ Ge(value, ToNumber(range.items[1]))
              /\ Le(value, ToNumber(range.items[2])))
  ELSE ThrowInvalidRange

inRange(value, range) ==
  IF isNumberRange(range)
    THEN Bool(/\ Ge(value, MathMin(Finite(0), range.items[1]))
              /\ Le(value, MathMax(range.items[1], Finite(0))))
  ELSE IF range.isArray /\ Len(range.items) = 2
    THEN Bool(/\ Ge(value, MathMin(range.items[1], range.items[2]))
              /\ Le(value, MathMax(range.items[1], range.items[2])))
  ELSE ThrowInvalidRange

(***************************************************************************)
(* is.evenInteger and is.oddInteger, on the numbers of is.inRange, a       *)
(* number with a fractional part, and values that are not numbers.         *)
(***************************************************************************)
\* 0.5
Fraction == [k |-> "fraction", n |-> 0]

\* Number.isInteger(value)
integer(value) == value.k = "int"

\* n % 2: the remainder takes the sign of the dividend
Remainder2(n) == IF n >= 0 THEN n % 2 ELSE -((-n) % 2)

MathAbs(n) == IF n >= 0 THEN n ELSE -n

\* isAbsoluteMod2 comparing the signed remainder
isAbsoluteMod2_Signed(remainder, value) ==
  integer(value) /\ Remainder2(value.n) = remainder

isAbsoluteMod2(remainder, value) ==
  integer(value) /\ MathAbs(Remainder2(value.n)) = remainder

evenInteger(value) == integer(value) /\ isAbsoluteMod2(0, value)

oddInteger(value) == integer(value) /\ isAbsoluteMod2(1, value)

(***************************************************************************)
(* is.exact.  Its arguments are primitives or references to the objects of *)
(* a heap; an object has its own enumerable keys, in insertion order, and  *)
(* the value at each key.                                                  *)
(***************************************************************************)
Ref(id) == [kind |-> "object", id |-> id, tag |-> "Object", n |-> 0]
Num(n) == [kind |-> "primitive", id |-> "", tag |-> "number", n |-> n]
Str == [kind |-> "primitive", id |-> "", tag |-> "string", n |-> 0]

ObjectIds == { "a", "b", "c", "p", "q", "s", "n", "m", "y", "e" }

\* a = { self: a }, b = { self: b }, c = { x: 1, self: c }, p = { x: 1 },
\* q = { x: 2 }, s = { x: "s" }, n = { x: p }, m = { x: q }, y = { y: 1 },
\* e = {}
Heap(id) ==
  CASE id = "a" -> [keys |-> <<"self">>, at |-> [self |-> Ref("a")]]
    [] id = "b" -> [keys |-> <<"self">>, at |-> [self |-> Ref("b")]]
    [] id = "c" -> [keys |-> <<"x", "self">>,
                    at |-> [x |-> Num(1), self |-> Ref("c")]]
    [] id = "p" -> [keys |-> <<"x">>, at |-> [x |-> Num(1)]]
    [] id = "q" -> [keys |-> <<"x">>, at |-> [x |-> Num(2)]]
    [] id = "s" -> [keys |-> <<"x">>, at |-> [x |-> Str]]
    [] id = "n" -> [keys |-> <<"x">>, at |-> [x |-> Ref("p")]]
    [] id = "m" -> [keys |-> <<"x">>, at |-> [x |-> Ref("q")]]
    [] id = "y" -> [keys |-> <<"y">>, at |-> [y |-> Num(1)]]
    [] id = "e" -> [keys |-> <<>>, at |-> <<>>]

\* Object.keys(value)
ObjectKeys(value) == Heap(value.id).keys

\* key in value
HasKey(value, key) ==
  \E i \in 1..Len(ObjectKeys(value)) : ObjectKeys(value)[i] = key

\* value[key]
Get(value, key) == Heap(value.id).at[key]

\* is.object on these arguments
isObjectRef(value) == value.kind = "object"

\* getTypeName on these arguments
typeNameOf(value) == value.tag

nonEmptyObject(value) == isObjectRef(value) /\ Len(ObjectKeys(value)) > 0

subset(shape, value) ==
  /\ nonEmptyObject(shape) /\ nonEmptyObject(value)
  /\ \A i \in 1..Len(ObjectKeys(value)) : HasKey(shape, ObjectKeys(value)[i])

enumKey(key, targetEnum) == HasKey(targetEnum, key)

\* Object.values(targetEnum).includes(value)
enumCase(value, targetEnum) ==
  \E i \in 1..Len(ObjectKeys(targetEnum)) :
    Get(targetEnum, ObjectKeys(targetEnum)[i]) = value

\* Object.entries(from).every(([key, val]) =>
\*   is.enumKey(key, to) && is.enumCase(val, to))
entriesIn(from, to) ==
  \A i \in 1..Len(ObjectKeys(from)) :
    /\ enumKey(ObjectKeys(from)[i], to)
    /\ enumCase(Get(from, ObjectKeys(from)[i]), to)

\* is.exact(shape, value) called with `depth` calls of is.exact already on
\* the stack
RECURSIVE exactAt(_, _, _)
exactAt(shape, value, depth) ==
  IF depth >= MaxCallDepth THEN ThrowRangeError
  ELSE IF ~isObjectRef(value) \/ ~isObjectRef(shape) THEN Bool(value = shape)
  ELSE IF shape = value THEN True
  ELSE IF subset(shape, value) /\ subset(value, shape)
    THEN IF entriesIn(shape, value) /\ entriesIn(value, shape) THEN True
         ELSE ArrayMethod("every",
                [i \in 1..Len(ObjectKeys(value)) |->
                   LET key == ObjectKeys(value)[i]
                       val == Get(value, key)
                   IN IF isObjectRef(val) /\ isObjectRef(Get(shape, key))
                        THEN exactAt(val, Get(shape, key), depth + 1)
                        ELSE Bool(typeNameOf(val) = typeNameOf(Get(shape, key)))],
                1)
  ELSE False

exact(shape, value) == exactAt(shape, value, 0)

(***************************************************************************)
(* is.sparseArray.  The argument is a record: isArray, and slots, what     *)
(* each index below length holds: "hole" (no element), "truthy" or "falsy" *)
(* (an element of that truthiness).                                        *)
(***************************************************************************)
\* value.filter((v) => v).length: filter skips holes and keeps the
\* elements the callback finds truthy
filterLength(slots) ==
  Cardinality({ i \in 1..Len(slots) : slots[i] = "truthy" })

sparseArray(value) ==
  value.isArray /\ Len(value.slots) # filterLength(value.slots)

(***************************************************************************)
(* The values the operations are applied to.                               *)
(***************************************************************************)
\* {} : a plain object
Obj ==
  [ typ |-> "object", truthy |-> TRUE, nan |-> FALSE, obs |-> "absent",
    atobs |-> "absent", isArray |-> FALSE, isBuffer |-> "absent",
    deno |-> FALSE, wrapper |-> "none", tag |-> "Object", node |-> FALSE,
    generic |-> FALSE, style |-> FALSE, ownerSVG |-> FALSE, len |-> "absent" ]

Prim(typ, truthy, nan, tag) ==
  [Obj EXCEPT !.typ = typ, !.truthy = truthy, !.nan = nan, !.tag = tag,
              !.len = IF typ \in { "string", "function" }
                        THEN "valid" ELSE "absent"]

NullValue == Prim("null", FALSE, FALSE, "Null")
UndefinedValue == Prim("undefined", FALSE, FALSE, "Undefined")
StringValue == Prim("string", TRUE, FALSE, "String")
NumberValue == Prim("number", TRUE, FALSE, "Number")
NaNValue == Prim("number", FALSE, TRUE, "Number")
FunctionValue == Prim("function", TRUE, FALSE, "Function")

Primitives ==
  { NullValue, UndefinedValue, StringValue, NumberValue, NaNValue,
    Prim("string", FALSE, FALSE, "String"),
    Prim("number", FALSE, FALSE, "Number"),
    Prim("boolean", TRUE, FALSE, "Boolean"),
    Prim("boolean", FALSE, FALSE, "Boolean"),
    Prim("bigint", TRUE, FALSE, "BigInt"),
    Prim("bigint", FALSE, FALSE, "BigInt"),
    Prim("symbol", TRUE, FALSE, "Symbol") }

Presence == { "absent", "self", "other", "notfn" }

\* functions, with and without an observable method or a constructor
\* property of their own
Functions ==
  { [FunctionValue EXCEPT !.obs = x, !.tag = t, !.isBuffer = b] :
      x \in Presence, t \in { "Function", "AsyncFunction" },
      b \in { "absent", "yes" } }

BuiltinTags ==
  { TagOf(T) : T \in TagPredicates }
    \cup { "Object", "Arguments", "Foo", "URL", "Generator", "Buffer",
           "NaN", "Function", "Array", "Observable", "AsyncFunction" }

ArrayValue == [Obj EXCEPT !.isArray = TRUE, !.tag = "Array", !.len = "valid"]
MapValue == [Obj EXCEPT !.tag = "Map"]
\* Buffer.from("x") of std/node/buffer.ts: a Uint8Array subclass
NodeBufferValue == [Obj EXCEPT !.tag = "Uint8Array", !.isBuffer = "yes"]
\* new Buffer() of std/io/buffer.ts
DenoBufferValue == [Obj EXCEPT !.deno = TRUE]
ObservableValue == [Obj EXCEPT !.obs = "self"]
\* { [Symbol.observable]: 1 }
BadObservableValue == [Obj EXCEPT !.obs = "notfn"]

Builtins == { [Obj EXCEPT !.tag = t] : t \in BuiltinTags }

\* new String("x"), ..., and the same with Symbol.toStringTag overridden
Wrappers ==
  { [Obj EXCEPT !.wrapper = w, !.tag = t] :
      w \in WrapperNames, t \in WrapperNames \cup { "Foo" } }

Elements ==
  { [Obj EXCEPT !.tag = t, !.node = n, !.generic = g, !.style = s,
                !.ownerSVG = o] :
      t \in ElementTags \cup { "Object", "Foo" },
      n \in BOOLEAN, g \in BOOLEAN, s \in BOOLEAN, o \in BOOLEAN }

\* objects that carry observable methods, a constructor with isBuffer, or
\* the Buffer prototype, on top of what they otherwise are
Carriers ==
  { Obj, ArrayValue, MapValue, [Obj EXCEPT !.tag = "Uint8Array"],
    [Obj EXCEPT !.tag = "ArrayBuffer"],
    [Obj EXCEPT !.wrapper = "String", !.tag = "String"],
    [Obj EXCEPT !.wrapper = "Number", !.tag = "Foo"],
    [Obj EXCEPT !.tag = "HTMLDivElement", !.node = TRUE, !.generic = TRUE,
                !.style = TRUE] }

Carrying ==
  { [c EXCEPT !.obs = x, !.atobs = y, !.isBuffer = b, !.deno = d] :
      c \in Carriers, x \in Presence, y \in Presence,
      b \in { "absent", "yes", "no", "notfn" }, d \in BOOLEAN }

\* objects with a length property: { length: 2, 0: "a", 1: "b" },
\* { length: -1 }, the same with a class tag or an observable method, and
\* new String("ab")
ArrayLikes ==
  { [c EXCEPT !.len = l] :
      c \in { Obj, [Obj EXCEPT !.tag = "Array"],
              [Obj EXCEPT !.tag = "Arguments"], ObservableValue,
              BadObservableValue, NodeBufferValue,
              [Obj EXCEPT !.wrapper = "String", !.tag = "String"] },
      l \in { "valid", "invalid" } }

Values ==
  Primitives \cup Functions \cup Builtins \cup Wrappers \cup Elements
    \cup Carrying \cup ArrayLikes

\* a real primitive wrapper object (new String(...), Object(1n), ...)
IsWrapper(v) == v.typ = "object" /\ v.wrapper \in WrapperNames

\* the sequences over S of length at most n
SeqsUpTo(S, n) == UNION { [1..k -> S] : k \in 0..n }

\* the values and predicates the stateful operations are applied to
SmallValues == { StringValue, NumberValue, MapValue, BadObservableValue }

SmallPredicates == { "string", "number", "map", "observable" }

\* 0, a second number
ZeroValue == Prim("number", FALSE, FALSE, "Number")

\* the value lists assert.any / assert.all are applied to
AssertedValues ==
  SeqsUpTo({ StringValue, NumberValue, ZeroValue, BadObservableValue }, 2)

\* the predicates and values the combinators are applied to

CombinatorItems == { "string", "number", "observable", NotAFunction }

CombinatorPredicates ==
  { [isArray |-> FALSE, items |-> <<p>>] : p \in CombinatorItems }
    \cup { [isArray |-> TRUE, items |-> ps] :
             ps \in SeqsUpTo(CombinatorItems, MaxPredicates) }

CombinatorValues ==
  SeqsUpTo({ StringValue, NumberValue, BadObservableValue }, MaxValues)

\* the numbers and ranges is.inRange is applied to
Numbers ==
  { Finite(n) : n \in -MaxNumber..MaxNumber }
    \cup { NaNNumber, PosInfinity, NegInfinity }

RangeMembers == Numbers \cup { StringMember, NullMember }

Ranges ==
  { [isArray |-> FALSE, items |-> <<x>>] : x \in RangeMembers }
    \cup { [isArray |-> TRUE, items |-> xs] :
             xs \in SeqsUpTo(RangeMembers, MaxRangeLength) }

\* the classes and instances the instance checks are applied to: Dog
\* extends Animal
Classes == { "Object", "Animal", "Dog", "Number" }

Instances ==
  { [kind |-> "nullish", chain |-> <<>>],
    [kind |-> "primitive", chain |-> <<"Number", "Object">>],
    [kind |-> "object", chain |-> <<>>],
    [kind |-> "object", chain |-> <<"Object">>],
    [kind |-> "object", chain |-> <<"Number", "Object">>],
    [kind |-> "object", chain |-> <<"Animal", "Object">>],
    [kind |-> "object", chain |-> <<"Dog", "Animal", "Object">>] }

\* the values is.evenInteger / is.oddInteger are applied to
ParityValues == Numbers \cup { Fraction, StringMember, NullMember }

\* the values is.sparseArray is applied to: arrays, and one value that is
\* not an array
SlotArrays ==
  { [isArray |-> TRUE, slots |-> xs] :
      xs \in SeqsUpTo({ "hole", "truthy", "falsy" }, MaxSlots) }
    \cup { [isArray |-> FALSE, slots |-> <<>>] }

\* the arguments is.exact is applied to
ExactValues == { Ref(id) : id \in ObjectIds } \cup { Num(1), Num(2), Str }

(***************************************************************************)
(* State.                                                                  *)
(*   negated        is.__negated, read and written through is[IsNegated]   *)
(*   assertNegated  assert[IsNegated], set by a read of is.assert.not      *)
(*   views          how many negated views the caller has taken            *)
(*   last           the most recent operation: its name, predicate,       *)
(*                  argument and outcome, the value of the flag before it, *)
(*                  and whether it repeats the previous plain call after   *)
(*                  some stateful operation                                *)
(*   plain          the most recent plain call is(v) / is.T(v)             *)
(*   mid            a stateful operation happened since that plain call    *)
(***************************************************************************)
Op(op, T, v, out, rep) ==
  [ op |-> op, pred |-> T, val |-> v, out |-> out, neg |-> negated,
    rep |-> rep ]

Init ==
  /\ negated = FALSE
  /\ assertNegated = FALSE
  /\ views = 0
  /\ last = [ op |-> "none", pred |-> "none", val |-> UndefinedValue,
              out |-> Void, neg |-> FALSE, rep |-> FALSE ]
  /\ plain = [ set |-> FALSE, pred |-> "none", val |-> UndefinedValue,
               out |-> Void ]
  /\ mid = FALSE

Repeats(T, v) == plain.set /\ plain.pred = T /\ plain.val = v /\ mid

\* the caller keeps the result of a plain call
Remember ==
  /\ plain' = [ set |-> TRUE, pred |-> last'.pred, val |-> last'.val,
                out |-> last'.out ]
  /\ mid' = FALSE

\* is(value): the apply trap of the `is` proxy
Is(v) ==
  /\ last' = Op("is", "typeName", v, getTypeName(v), Repeats("typeName", v))
  /\ UNCHANGED <<negated, assertNegated, views>>

\* a plain predicate that honours the negation flag as the negated view does
Predicate_Negating(T, v) ==
  /\ last' = Op("pred", T, v,
                IF negated /\ isT(T, v) \in {True, False}
                  THEN Negate(isT(T, v)) ELSE isT(T, v),
                Repeats(T, v))
  /\ UNCHANGED <<negated, assertNegated, views>>

\* is.T(value): the get trap's default case, then the predicate itself
Predicate(T, v) ==
  /\ last' = Op("pred", T, v, isT(T, v), Repeats(T, v))
  /\ UNCHANGED <<negated, assertNegated, views>>

\* a read of is.not: the get trap sets the flag and builds a negated view
ReadNot ==
  /\ views < MaxViews
  /\ negated' = TRUE
  /\ views' = views + 1
  /\ last' = Op("is.not", "none", UndefinedValue, Void, FALSE)
  /\ mid' = TRUE
  /\ UNCHANGED <<assertNegated, plain>>

\* a read of is.assert: a fresh proxy around assert, no state is touched
ReadAssert ==
  /\ last' = Op("is.assert", "none", UndefinedValue, Void, FALSE)
  /\ mid' = TRUE
  /\ UNCHANGED <<negated, assertNegated, views, plain>>

\* a read of is.assert.not: sets the flag of assert, then createNegated
\* fails on Reflect.ownKeys(assert[IsDeprecated]), which is undefined
ReadAssertNot ==
  /\ assertNegated' = TRUE
  /\ last' = Op("is.assert.not", "none", UndefinedValue, ThrowTypeError, FALSE)
  /\ mid' = TRUE
  /\ UNCHANGED <<negated, views, plain>>

\* The text of an assertion error, by its parts (the backquotes of the
\* source text are written as quotes).
\*   form         the fixed text around the parts
\*   not          the description is prefixed with "not "
\*   description  the description interpolated after "Expected value"
\*   suffix       what follows the description
\*   received     "value of type" or "values of types"
\*   tags         the tags listed after it, in order
MessageForm ==
  "Assertion Failure: Expected value '<description>'<suffix>. Received <received> <tags>."

ReadmeForm ==
  "Expected value which is '<description>', received value of type '<tag>'."

NoMessage ==
  [ form |-> "none", not |-> FALSE, description |-> "", suffix |-> "",
    received |-> "", tags |-> <<>> ]

\* AssertionTypeDescription of the assertions that are modelled
Description(T) ==
  CASE T = "string" -> "string"
    [] T = "number" -> "number"
    [] T = "map" -> "Map"
    [] T = "observable" -> "Observable"
    [] T = "any" -> "predicate is truthy for any one value"
    [] T = "all" -> "predicate is truthy for **all** of the values"

\* [...new Set(values)]: the distinct members, in order of first occurrence
RECURSIVE Distinct(_)
Distinct(values) ==
  IF Len(values) = 0 THEN <<>>
  ELSE LET front == Distinct(SubSeq(values, 1, Len(values) - 1))
           x == values[Len(values)]
       IN IF \E i \in 1..Len(front) : front[i] = x
            THEN front ELSE Append(front, x)

\* the options argument of is.assertType: the default, or { multipleValues }
DefaultOptions == [given |-> FALSE, multipleValues |-> FALSE]

MultipleValues == [given |-> TRUE, multipleValues |-> TRUE]

\* is.assertType(condition, description, value, options), entered with the
\* flag as `neg`: the outcome, the flag it leaves and the message of the
\* assertion error.  With multipleValues, value is the list of values.
assertType(condition, description, value, options, neg) ==
  LET isNegated == ~options.given /\ neg
      values == IF options.multipleValues THEN Distinct(value) ELSE <<value>>
      tags == [i \in 1..Len(values) |-> typeName(values[i])]
      thrown == { i \in 1..Len(tags) : tags[i] \in Throws }
      flag == IF isNegated THEN FALSE ELSE neg
  IN IF (IF isNegated THEN ~condition ELSE condition)
       THEN [ out |-> Void, flag |-> flag, msg |-> NoMessage ]
     ELSE IF thrown # {}
       THEN [ out |-> tags[CHOOSE i \in thrown : \A j \in thrown : i <= j],
              flag |-> flag, msg |-> NoMessage ]
     ELSE [ out |-> ThrowAssertion, flag |-> flag,
            msg |-> [ form |-> MessageForm, not |-> isNegated,
                      description |-> description,
                      suffix |-> IF isNegated THEN " (negated)" ELSE "",
                      received |-> IF options.multipleValues
                                     THEN "values of types"
                                     ELSE "value of type",
                      tags |-> tags ] ]

\* assert.T(value) == is.assertType(is.T(value), description, value)
AssertionCall(T, v) ==
  /\ IF isT(T, v) \in Throws
       THEN /\ last' = [ op |-> "assert", pred |-> T, val |-> v,
                         out |-> isT(T, v), neg |-> negated, rep |-> FALSE,
                         msg |-> NoMessage ]
            /\ negated' = negated
       ELSE LET a == assertType(isT(T, v) = True, Description(T), v,
                                DefaultOptions, negated)
            IN /\ last' = [ op |-> "assert", pred |-> T, val |-> v,
                            out |-> a.out, neg |-> negated, rep |-> FALSE,
                            msg |-> a.msg ]
               /\ negated' = a.flag
  /\ mid' = TRUE
  /\ UNCHANGED <<assertNegated, views, plain>>

\* assert.any / assert.all(predicate, ...values) ==
\*   is.assertType(is.any(predicate, ...values), description, values,
\*                 { multipleValues: true })
AssertionCombinator(name, predicate, values) ==
  LET condition == IF name = "any" THEN any(predicate, values)
                   ELSE all(predicate, values)
      a == assertType(condition = True, Description(name), values,
                      MultipleValues, negated)
  IN /\ last' = [ op |-> "assert.combinator", name |-> name,
                  predicate |-> predicate, values |-> values,
                  out |-> IF condition \in Throws THEN condition ELSE a.out,
                  neg |-> negated,
                  msg |-> IF condition \in Throws THEN NoMessage ELSE a.msg ]
     /\ negated' = IF condition \in Throws THEN negated ELSE a.flag
     /\ mid' = TRUE
     /\ UNCHANGED <<assertNegated, views, plain>>

\* `${value}` for the values the generic assertion is given
TemplateString(v) ==
  CASE v.typ = "string" -> "x"
    [] v.typ = "number" -> "1"
    [] v.tag = "Map" -> "[object Map]"
    [] OTHER -> "[object Object]"

\* assert(condition, actualValue, expectedDescription): assert is
\* is.assertType itself, whose second parameter is the description and
\* whose third is the value; a description is a string
GenericAssertion(condition, actualValue, expectedDescription) ==
  LET a == assertType(condition, TemplateString(actualValue), StringValue,
                      DefaultOptions, negated)
  IN /\ last' = [ op |-> "assert()", condition |-> condition,
                  actual |-> actualValue, expected |-> expectedDescription,
                  out |-> a.out, neg |-> negated, msg |-> a.msg ]
     /\ negated' = a.flag
     /\ mid' = TRUE
     /\ UNCHANGED <<assertNegated, views, plain>>

\* handleResult negating without clearing the flag
handleResult_KeepFlag(result, neg) ==
  IF result \in {True, False} /\ neg
    THEN [ out |-> Negate(result), flag |-> neg ]
    ELSE [ out |-> result, flag |-> neg ]

\* handleResult of a negated view, for `this` = the class `is`
handleResult(result, neg) ==
  IF result \in {True, False} /\ neg
    THEN [ out |-> Negate(result), flag |-> FALSE ]
    ELSE [ out |-> result, flag |-> neg ]

\* view.T(value) for a negated view obtained from is.not
NotCall(T, v) ==
  /\ views > 0
  /\ IF isT(T, v) \in Throws
       THEN /\ last' = Op("not", T, v, isT(T, v), FALSE)
            /\ negated' = negated
       ELSE /\ last' = Op("not", T, v, handleResult(isT(T, v), negated).out,
                          FALSE)
            /\ negated' = handleResult(isT(T, v), negated).flag
  /\ mid' = TRUE
  /\ UNCHANGED <<assertNegated, views, plain>>

Next ==
  \/ \E v \in SmallValues : Is(v) /\ Remember
  \/ \E T \in SmallPredicates, v \in SmallValues : Predicate(T, v) /\ Remember
  \/ ReadNot
  \/ ReadAssert
  \/ ReadAssertNot
  \/ \E T \in SmallPredicates, v \in SmallValues : AssertionCall(T, v)
  \/ \E name \in { "any", "all" }, vs \in AssertedValues :
       AssertionCombinator(name, [isArray |-> FALSE, items |-> <<"string">>],
                           vs)
  \/ \E condition \in BOOLEAN, v \in SmallValues,
        d \in { "string", "number" } : GenericAssertion(condition, v, d)
  \/ \E T \in SmallPredicates, v \in SmallValues : NotCall(T, v)

Spec == Init /\ [][Next]_vars

\* is.any / is.all / is.none(predicate, ...values)
Combinator(name, predicate, values) ==
  /\ last' = [ op |-> name, predicate |-> predicate, values |-> values,
               out |-> CASE name = "is.any" -> any(predicate, values)
                         [] name = "is.all" -> all(predicate, values)
                         [] name = "is.none" -> none(predicate, values) ]
  /\ UNCHANGED <<negated, assertNegated, views, plain, mid>>

\* is.directInstanceOf(instance, class_) / is.instanceOf(instance, class_)
InstanceCheck(name, instance, class_) ==
  /\ last' = [ op |-> name, instance |-> instance, class |-> class_,
               out |-> IF name = "is.directInstanceOf"
                         THEN directInstanceOf(instance, class_)
                         ELSE instanceOf(instance, class_) ]
  /\ UNCHANGED <<negated, assertNegated, views, plain, mid>>

\* is.evenInteger(value) / is.oddInteger(value)
Parity(name, value) ==
  /\ last' = [ op |-> name, value |-> value,
               out |-> IF name = "is.evenInteger"
                         THEN Bool(evenInteger(value))
                         ELSE Bool(oddInteger(value)) ]
  /\ UNCHANGED <<negated, assertNegated, views, plain, mid>>

\* is.sparseArray(value)
SparseArray(value) ==
  /\ last' = [ op |-> "is.sparseArray", value |-> value,
               out |-> Bool(sparseArray(value)) ]
  /\ UNCHANGED <<negated, assertNegated, views, plain, mid>>

\* is.exact(shape, value)
Exact(shape, value) ==
  /\ last' = [ op |-> "is.exact", shape |-> shape, value |-> value,
               out |-> exact(shape, value) ]
  /\ UNCHANGED <<negated, assertNegated, views, plain, mid>>

\* is.inRange(value, range)
InRange(value, range) ==
  /\ last' = [ op |-> "is.inRange", value |-> value, range |-> range,
               out |-> inRange(value, range) ]
  /\ UNCHANGED <<negated, assertNegated, views, plain, mid>>

\* The classifier and the predicates as pure functions of their arguments:
\* one call on a freshly loaded library.
PureNext ==
  \/ /\ last.op = "none"
     /\ \E v \in Values : Is(v) /\ UNCHANGED <<plain, mid>>
  \/ /\ last.op = "none"
     /\ \E T \in Predicates, v \in Values :
          Predicate(T, v) /\ UNCHANGED <<plain, mid>>
  \/ /\ last.op = "none"
     /\ \E name \in { "is.any", "is.all", "is.none" }, p \in CombinatorPredicates,
           vs \in CombinatorValues : Combinator(name, p, vs)
  \/ /\ last.op = "none"
     /\ \E value \in Numbers, range \in Ranges : InRange(value, range)
  \/ /\ last.op = "none"
     /\ \E name \in { "is.directInstanceOf", "is.instanceOf" },
           instance \in Instances, class_ \in Classes :
          InstanceCheck(name, instance, class_)
  \/ /\ last.op = "none"
     /\ \E name \in { "is.evenInteger", "is.oddInteger" },
           value \in ParityValues : Parity(name, value)
  \/ /\ last.op = "none"
     /\ \E value \in SlotArrays : SparseArray(value)
  \/ /\ last.op = "none"
     /\ \E shape \in ExactValues, value \in ExactValues : Exact(shape, value)

SpecPure == Init /\ [][PureNext]_vars

(***************************************************************************)
(* Claims.                                                                 *)
(***************************************************************************)
IsCalled == last.op = "is"

PredicateCalled(T) == last.op = "pred" /\ last.pred = T

\* an earlier classifier test (Observable, Array, Buffer) matches the
\* object or throws
ClaimedEarlier(v) ==
  \/ observable(v) # False
  \/ isArray(v)
  \/ nodeBuffer(v) # False
  \/ denoBuffer(v) # False

\* Object.prototype.toString gives the object the class tag `name`
ClassTagReads(v, name) == TypeOf(v) = "object" /\ v.tag = name

\* C1: for every value that is not a boxed primitive, is(v) returns a string
\* of the closed tag enumeration (never undefined, never another name).
C1_Totality ==
  (IsCalled /\ ~IsWrapper(last.val)) => last.out \in TypeName

C3_AssertionMatchesPredicate ==
  (last.op = "assert" /\ isT(last.pred, last.val) \in {True, False}) =>
    /\ (last.out \in Throws) <=> (isT(last.pred, last.val) = False)
    /\ isT(last.pred, last.val) = True =>
         (last.out = Void /\ negated = last.neg)

\* C4: every call through a negated view returns the logical negation of
\* the plain predicate, repeated calls through one view included.
C4_NegatedViewNegates ==
  (last.op = "not" /\ isT(last.pred, last.val) \in {True, False}) =>
    last.out = Negate(isT(last.pred, last.val))

\* C5: is(v) and every plain is.T(v) depend only on v: a call that repeats
\* the previous plain call returns what that call returned, whatever reads
\* of is.not, assertions and negated calls happened in between.
C5_PlainCallsDependOnlyOnValue ==
  [][ (plain.set /\ plain'.pred = plain.pred /\ plain'.val = plain.val)
        => plain'.out = plain.out ]_vars

\* a plain predicate call repeated after stateful operations, made while a
\* read of is.not is still pending
C5_Witness ==
  /\ last.op = "pred" /\ last.rep
  /\ last.neg /\ negated

\* C6 (as claimed): for every predicate that compares with a built-in tag T,
\* is.T(v) is true if and only if is(v) returns T.
C6_TagPredicateIffTag ==
  (last.op = "pred" /\ last.pred \in TagPredicates) =>
    ((last.out = True) <=> (getTypeName(last.val) = TagOf(last.pred)))

\* C6 (amended): if is(v) returns T then is.T(v) is true; if is.T(v) is true
\* then is(v) returns T unless an earlier classifier test (Observable, Array,
\* Buffer) matches v or throws.
C6_TagImpliesPredicate ==
  (last.op = "pred" /\ last.pred \in TagPredicates) =>
    /\ getTypeName(last.val) = TagOf(last.pred) => last.out = True
    /\ last.out = True =>
         \/ getTypeName(last.val) = TagOf(last.pred)
         \/ ClaimedEarlier(last.val)

\* is.uint8Array holds of a Node buffer, which is(v) tags "Buffer"
C6_Witness ==
  /\ PredicateCalled("uint8Array")
  /\ last.out = True
  /\ getTypeName(last.val) = "Buffer"

C9_ThrowsOnlyOnWrappers ==
  (IsCalled /\ last.out \in Throws) => IsWrapper(last.val)

\* C10: is(v) throws the invalid-usage TypeError, and returns no tag, for
\* every object wrapper around a string, number, boolean, bigint or symbol.
C10_WrappersRejected ==
  (IsCalled /\ IsWrapper(last.val)) => last.out = ThrowUsage

C12_AsyncFunctionTag ==
  (IsCalled /\ isFunction(last.val) /\ last.val.tag = "AsyncFunction") =>
    last.out = "AsyncFunction"

\* C13: is.asyncFunction(v) is true for every async function v and false for
\* every function that is not async.
C13_AsyncFunctionPredicate ==
  (PredicateCalled("asyncFunction") /\ isFunction(last.val)) =>
    ((last.out = True) <=> (last.val.tag = "AsyncFunction"))

\* C14: is.primitive(v) is true when v is null, undefined, a string, a
\* number, a boolean or a symbol, and false for every object and function.
C14_PrimitivePredicate ==
  PredicateCalled("primitive") =>
    /\ last.val.typ \in { "null", "undefined", "string", "number", "boolean",
                          "symbol" } => last.out = True
    /\ last.val.typ \in { "object", "function" } => last.out = False

\* the combinator was given at least one predicate, each a function, and at
\* least one value
WellFormedCombination ==
  /\ Len(last.predicate.items) >= 1
  /\ \A i \in 1..Len(last.predicate.items) :
       last.predicate.items[i] # NotAFunction
  /\ Len(last.values) >= 1

\* some supplied predicate returns true for some supplied value
SomePredicateHolds ==
  \E i \in 1..Len(last.predicate.items), j \in 1..Len(last.values) :
    isT(last.predicate.items[i], last.values[j]) = True

\* every supplied predicate returns true for every supplied value
EveryPredicateHolds ==
  \A i \in 1..Len(last.predicate.items), j \in 1..Len(last.values) :
    isT(last.predicate.items[i], last.values[j]) = True

\* every supplied predicate returns (true or false) for every supplied value
EveryPredicateReturns ==
  \A i \in 1..Len(last.predicate.items), j \in 1..Len(last.values) :
    isT(last.predicate.items[i], last.values[j]) \in {True, False}

\* C15: is.any and is.all throw whenever the value list is empty or some
\* supplied predicate is not a function, wherever that predicate stands and
\* whatever the other predicates return.
C15_CombinatorsRejectBadArguments ==
  (/\ last.op \in { "is.any", "is.all" }
   /\ \/ Len(last.values) = 0
      \/ \E i \in 1..Len(last.predicate.items) :
           last.predicate.items[i] = NotAFunction) =>
    last.out \in Throws

C17_AllIffEveryPredicateHolds ==
  (last.op = "is.all" /\ WellFormedCombination) =>
    /\ (last.out = True) <=> EveryPredicateHolds
    /\ EveryPredicateReturns => last.out \in {True, False}
    /\ (/\ last.predicate = [isArray |-> FALSE, items |-> <<"number">>]
        /\ last.values = <<NumberValue, NumberValue, NumberValue>>) =>
         last.out = True
    /\ (/\ last.predicate = [isArray |-> FALSE, items |-> <<"number">>]
        /\ last.values = <<NumberValue, StringValue, NumberValue>>) =>
         last.out = False

\* is.all(is.number, 1, "x", 3) was evaluated
C17_Witness ==
  /\ last.op = "is.all"
  /\ last.predicate = [isArray |-> FALSE, items |-> <<"number">>]
  /\ last.values = <<NumberValue, StringValue, NumberValue>>
  /\ last.out = False

\* C18: is.none returns true if and only if no supplied predicate returns
\* true for any supplied value; for the same arguments it is the negation of
\* is.any.
C18_NoneNegatesAny ==
  (last.op = "is.none" /\ WellFormedCombination /\ EveryPredicateReturns) =>
    /\ (last.out = True) <=> ~SomePredicateHolds
    /\ last.out = Negate(any(last.predicate, last.values))

\* the range is a number other than NaN, or a pair of such numbers
ValidRange(range) ==
  \/ isNumberRange(range)
  \/ /\ range.isArray
     /\ Len(range.items) = 2
     /\ \A i \in 1..2 : range.items[i].k \in { "int", "inf" }

\* C19: is.inRange(v, range) throws whenever range is neither a number nor a
\* two-element numeric pair (a NaN bound, an array of another length, a pair
\* with a non-numeric member), and never returns false for such a range.
C19_InvalidRangeThrows ==
  (last.op = "is.inRange" /\ ~ValidRange(last.range)) =>
    last.out \in Throws

\* the range is a two-element array of numbers
NumberPair(range) ==
  /\ range.isArray
  /\ Len(range.items) = 2
  /\ \A i \in 1..2 : IsNumberKind(range.items[i])

C21_PredicatesNeverThrow ==
  last.op = "pred" => last.out \in {True, False}

\* C25: is.directInstanceOf(v, C) is true exactly when the immediate
\* prototype of v is C.prototype, so it is false for an instance of a
\* subclass of C, and whenever it is true is.instanceOf(v, C) is true too.
C25_DirectInstanceOf ==
  last.op = "is.directInstanceOf" =>
    /\ (last.out = True) <=>
         (/\ last.instance.kind # "nullish"
          /\ Len(last.instance.chain) >= 1
          /\ last.instance.chain[1] = last.class)
    /\ (\E i \in 2..Len(last.instance.chain) :
          /\ last.instance.chain[i] = last.class
          /\ last.instance.chain[1] # last.class) => last.out = False
    /\ last.out = True => instanceOf(last.instance, last.class) = True

\* a Dog was checked against Animal, the class Dog extends
C25_Witness ==
  /\ last.op = "is.directInstanceOf"
  /\ last.instance = [kind |-> "object", chain |-> <<"Dog", "Animal", "Object">>]
  /\ last.class = "Animal"
  /\ last.out = False
  /\ instanceOf(last.instance, last.class) = True

\* an object that is not an array and has a non-negative safe-integer length
NonArrayWithLength(v) ==
  TypeOf(v) = "object" /\ ~isNull(v) /\ ~isArray(v) /\ isValidLength(v)

C27_ExactlyOneParity ==
  /\ last.op = "is.evenInteger" =>
       IF last.value.k = "int"
         THEN (last.out = True) <=> ~oddInteger(last.value)
         ELSE last.out = False
  /\ last.op = "is.oddInteger" =>
       IF last.value.k = "int"
         THEN (last.out = True) <=> ~evenInteger(last.value)
         ELSE last.out = False

\* is.oddInteger(-1)
C27_Witness ==
  /\ last.op = "is.oddInteger"
  /\ last.value = Finite(-1)
  /\ last.out = True

\* C30: is.sparseArray(v) is true exactly when v is an array with at least
\* one missing index, and false for every array whose indices are all
\* present, whatever values its elements hold.
C30_SparseIffHole ==
  last.op = "is.sparseArray" =>
    last.out = Bool(/\ last.value.isArray
                    /\ \E i \in 1..Len(last.value.slots) :
                         last.value.slots[i] = "hole")

\* C29: is.exact(shape, value) terminates and returns a boolean for every
\* pair of arguments, objects whose properties refer back to the objects
\* themselves included.
C29_ExactReturnsBoolean ==
  last.op = "is.exact" => last.out \in {True, False}

\* C22: when assert.T(v) fails, the message of the error has the form
\* "Expected value which is `<description of T>`, received value of type
\* `<tag>`.", where <tag> is the tag is(v) returns.
C22_AssertionMessage ==
  (last.op = "assert" /\ last.out = ThrowAssertion) =>
    /\ last.msg.form = ReadmeForm
    /\ last.msg.description = Description(last.pred) /\ ~last.msg.not
    /\ last.msg.tags = <<getTypeName(last.val)>>

\* C23: when assert.any or assert.all fails, the message lists the distinct
\* tags of the supplied values: each tag once, however many values share it.
C23_DistinctTagsListed ==
  (last.op = "assert.combinator" /\ last.out = ThrowAssertion) =>
    /\ \A i, j \in 1..Len(last.msg.tags) :
         i # j => last.msg.tags[i] # last.msg.tags[j]
    /\ { last.msg.tags[i] : i \in 1..Len(last.msg.tags) }
         = { getTypeName(last.values[i]) : i \in 1..Len(last.values) }

\* C24: assert(condition, actualValue, expectedDescription) throws if and
\* only if condition is false, and the error names expectedDescription as
\* what was expected and the tag of actualValue as what was received.
C24_GenericAssertion ==
  last.op = "assert()" =>
    /\ (last.out \in Throws) <=> ~last.condition
    /\ last.out \in Throws =>
         /\ last.msg.description = last.expected
         /\ last.msg.tags = <<getTypeName(last.actual)>>

\* C28: the negation flag is set only by a read of is.not and is cleared by
\* the next negated-view call that returns a boolean or the next assertion
\* made with default options; only an operation entered with the flag set
\* is inverted, and it leaves the flag cleared, so each read inverts at most
\* one later operation and the flag is false unless a read is pending.
C28_FlagLifecycle ==
  /\ last.op = "is.not" => negated
  /\ (last.op \notin { "is.not", "none" } /\ negated) => last.neg
  /\ last.op \in { "is", "pred", "is.assert", "is.assert.not",
                    "assert.combinator" } => negated = last.neg
  /\ last.op \in { "not", "assert" } =>
       IF isT(last.pred, last.val) \in Throws
         THEN negated = last.neg /\ last.out = isT(last.pred, last.val)
         ELSE ~negated
  /\ (last.op = "not" /\ isT(last.pred, last.val) \notin Throws) =>
       last.out = IF last.neg THEN Negate(isT(last.pred, last.val))
                  ELSE isT(last.pred, last.val)
  /\ (last.op = "assert" /\ isT(last.pred, last.val) \notin Throws) =>
       ((last.out = Void) <=>
          (IF last.neg THEN isT(last.pred, last.val) = False
           ELSE isT(last.pred, last.val) = True))
  /\ last.op = "assert()" =>
       /\ ~negated
       /\ (last.out = Void) <=>
            (IF last.neg THEN ~last.condition ELSE last.condition)
  /\ last.op = "assert.combinator" =>
       (last.out = Void) <=>
         ((IF last.name = "any" THEN any(last.predicate, last.values)
           ELSE all(last.predicate, last.values)) = True)

\* a second call through a negated view found the flag already cleared by
\* the first and was not inverted
C28_Witness ==
  /\ last.op = "not"
  /\ ~last.neg /\ ~negated
  /\ last.out = isT(last.pred, last.val)
  /\ last.out \in {True, False}

====
